---- MODULE Spec2Model ----
\* Board detection of depthchargectl (depthcharge_tools/depthchargectl/__init__.py).
\*
\* Strings that the code takes apart are sequences of tokens: a codename
\* "reef-rev2" is <<"reef", "-", "rev2">>, a section name "boards/x86/reef"
\* is the sequence of its "/"-separated components, a hardware ID
\* "REEF A1" is <<"REEF", "A1">>.  The empty string is <<>>.
EXTENDS Integers, Sequences, FiniteSets, TLC

VARIABLES
    catalog,      \* boards: the "boards/..." sections of the config, in iteration order
    codename,     \* the --board argument of the running call
    config_board, \* self.config.get("board", "")
    pc,           \* position of the running call of depthchargectl.board
    probes,       \* the probes the running call has read so far
    hwid,         \* value cros_hwid() returned
    compatibles,  \* value dt_compatibles() returned
    cros,         \* value is_cros_boot() returned
    arch,         \* value platform.machine() returned
    result,       \* what the call returned or raised
    last,         \* codename and result of the previous call, kept while calls have a codename
    arch_names,   \* the names of the Architecture values under comparison
    arch_cmp,     \* what the comparisons and properties of these values gave
    installed,    \* installed_kernels(): the releases of the kernels, in listing order
    kernel_cmp,   \* what comparing the installed kernels with each other gave
    kernel_arg,   \* the KERNEL_VERSION argument of depthchargectl build
    kernel_result, \* what depthchargectl_build.kernel_version returned or raised
    attr_text,    \* the hexadecimal digits cgpt show -A printed for a partition
    attr,         \* the packed attribute value
    attrs_in,     \* the attributes the packed value was made of
    attrs_out,    \* the attributes depthcharge_partitions made of the packed value
    dev_parents,  \* BlockDevice._parents: the recorded parents of the device names
    dev_physicals, \* BlockDevice._physicals: the names of the physical disks
    dev_exists,   \* the names /dev has a block device for
    pp,           \* the physical_parents call in progress, and the devices it
                  \* has taken out of parents so far
    bpd,          \* the bootable_physical_disks call in progress
    next_id,      \* the identity of the next device object made
    sysfs,        \* /sys/class/block: the entries of the devices there are
    scan,         \* the scan_devices call in progress, and what the last one did
    build         \* the depthchargectl build call in progress and the output file

boardVars == <<catalog, codename, config_board, pc, probes, hwid, compatibles,
               cros, arch, result, last>>

archVars == <<arch_names, arch_cmp>>

kernelVars == <<installed, kernel_cmp, kernel_arg, kernel_result>>

attrVars == <<attr_text, attr, attrs_in, attrs_out>>

devVars == <<dev_parents, dev_physicals, dev_exists, pp, bpd, next_id>>

scanVars == <<sysfs, scan>>

buildVars == <<build>>

vars == <<boardVars, archVars, kernelVars, attrVars, devVars, scanVars, buildVars>>

\* What board detection leaves alone.
NotBoard == <<archVars, kernelVars, attrVars, devVars, scanVars, buildVars>>

\* ---------------------------------------------------------------------
\* Bounds
\* ---------------------------------------------------------------------
MaxBoards == 2   \* number of "boards/..." sections in a catalog
MaxCompat == 2   \* length of the device-tree compatible list

\* ---------------------------------------------------------------------
\* Values
\* ---------------------------------------------------------------------
\* Python's None where a string is expected.
None == <<"<None>">>

\* float("inf")
Inf == 1000000

NoRev == -1

Range(s) == {s[i] : i \in DOMAIN s}

\* A device-tree compatible string "<base>[-rev<N>][-sku<N>]".
Compat(base, rev, sku) == [base |-> base, rev |-> rev, sku |-> sku]

\* A board section: section name, and the codename, hwid-match and
\* dt-compatible values its config returns (None when the key is unset;
\* a child section without its own codename returns its parent's).
Section(sect, cn, hw, dt) ==
    [sect |-> sect, codename |-> cn, hwid |-> hw, dt |-> dt]

NoDt == <<>>

Pool == <<
    Section(<<"boards", "x86">>, None, None, NoDt),
    Section(<<"boards", "amd64">>, None, None, NoDt),
    Section(<<"boards", "x86", "reef">>, <<"reef">>, <<"REEF">>,
            <<Compat("google,reef", NoRev, NoRev)>>),
    Section(<<"boards", "x86", "reef", "rev2">>, <<"reef", "-", "rev2">>,
            <<"REEF", "A2">>, <<Compat("google,reef", 2, NoRev)>>),
    Section(<<"boards", "x86", "reef-rev2">>, <<"reef", "-", "rev2">>, <<>>, NoDt),
    Section(<<"boards", "x86", "reef", "v1">>, <<"reef">>, None, NoDt),
    Section(<<"boards", "snappy">>, <<"reef", "-", "snappy">>, <<"REEF">>,
            <<Compat("google,snappy", NoRev, NoRev)>>),
    Section(<<"boards", "x86", "coral">>, <<"coral">>, <<"CORAL">>,
            <<Compat("google,coral", NoRev, NoRev)>>),
    Section(<<"boards", "arm64", "corsola">>, <<"corsola">>, None,
            <<Compat("google,corsola", NoRev, NoRev)>>)
>>

RECURSIVE SeqsOver(_, _)
SeqsOver(S, n) ==
    IF n = 0 THEN {<<>>}
    ELSE LET shorter == SeqsOver(S, n - 1)
         IN  shorter \cup {Append(s, x) : s \in {t \in shorter : Len(t) = n - 1},
                                          x \in S}

NoRepeat(s) == \A i, j \in DOMAIN s : i # j => s[i] # s[j]

Catalogs == {c \in SeqsOver(Range(Pool), MaxBoards) : NoRepeat(c)}

Codenames == {
    <<>>,
    <<"none">>,
    <<"reef">>,
    <<"reef", "-", "rev2">>,
    <<"Reef", "_", "Rev2">>,
    <<"coral", "-", "rev4">>,
    <<"speedy">>,
    <<"x86">>,
    <<"amd64">>
}

ConfigBoards == {<<>>, <<"coral">>}

Hwids == {None, <<"REEF", "A2">>, <<"CORAL", "B1">>, <<"KEVIN">>}

CompatStrings == {
    Compat("google,reef", 2, NoRev),
    Compat("google,reef", NoRev, NoRev),
    Compat("google,coral", NoRev, 1)
}

NoCompatibles == [present |-> FALSE, list |-> <<>>]

CompatLists ==
    {NoCompatibles} \cup
    {[present |-> TRUE, list |-> l] : l \in SeqsOver(CompatStrings, MaxCompat)}

Machines == {"arm", "aarch64", "i386", "x86_64", "armv7l"}

\* ---------------------------------------------------------------------
\* Outcomes of a call
\* ---------------------------------------------------------------------
NoResult == [kind |-> "pending", sect |-> <<>>, how |-> "", names |-> <<>>]

ReturnBoard(b, how) ==
    [kind |-> "board", sect |-> b.sect, how |-> how, names |-> <<>>]

ReturnNone(how) ==
    [kind |-> "none", sect |-> <<>>, how |-> how, names |-> <<>>]

Raise(err, names) ==
    [kind |-> "error", sect |-> <<>>, how |-> err, names |-> names]

NoLast == [valid |-> FALSE, codename |-> <<>>, result |-> NoResult]

\* No Architecture value is under comparison.
NoArchNames == <<>>

NoArchCmp == [done |-> FALSE, eq |-> <<>>, ne |-> <<>>, mkimage |-> <<>>,
              vboot |-> <<>>]

\* No kernel comparison was made, kernel_version was not called.
NoKernelCmp == [done |-> FALSE, lt |-> <<>>, gt |-> <<>>]

NoKernelResult == [kind |-> "pending", release |-> None, err |-> ""]

\* No packed value, no attributes.
NoAttr == -1

NoAttrs == [priority |-> -1, tries |-> -1, successful |-> -1]

\* No device object.
NoDev == [name |-> "<None>", id |-> 0]

\* No physical_parents call, no bootable_physical_disks call.
NoCall ==
    [pc |-> "idle", self |-> NoDev, caller |-> "none",
     parents |-> {}, todo |-> {}, removed |-> {}, result |-> <<>>]

NoBootable == [pc |-> "idle", boot |-> NoDev, root |-> NoDev, disks |-> <<>>]

\* No scan_devices call was made.
NoScan ==
    [pc |-> "idle", force |-> FALSE, todo |-> {}, listed |-> {},
     before |-> [parents |-> <<>>, physicals |-> {}],
     outcome |-> "", done |-> FALSE, later |-> FALSE]

\* No device was scanned, no call is made.
\* No file at the output path.
NoFile == [compress |-> "", size |-> -1]

NoBuild ==
    [pc |-> "idle", args |-> <<>>, lz4 |-> FALSE, lzma |-> FALSE,
     zimage |-> FALSE, max |-> 0, initrd |-> FALSE, inputs |-> 0,
     compress |-> <<>>, k |-> 0, outtmp |-> NoFile, tried |-> <<>>,
     before |-> NoFile, copied |-> FALSE, output |-> NoFile, result |-> ""]

\* depthchargectl build at rest, for the specifications of the other parts.
BuildIdle == build = NoBuild

DevIdle ==
    /\ dev_parents = <<>>
    /\ dev_physicals = {}
    /\ dev_exists = {}
    /\ pp = NoCall
    /\ bpd = NoBootable
    /\ next_id = 1
    /\ sysfs = <<>>
    /\ scan = NoScan

\* ---------------------------------------------------------------------
\* Specification
\* ---------------------------------------------------------------------
Init ==
    /\ catalog \in Catalogs
    /\ codename = <<>>
    /\ config_board = <<>>
    /\ pc = "idle"
    /\ probes = {}
    /\ hwid = None
    /\ compatibles = NoCompatibles
    /\ cros = FALSE
    /\ arch = ""
    /\ result = NoResult
    /\ last = NoLast
    /\ arch_names = NoArchNames
    /\ arch_cmp = NoArchCmp
    /\ installed = <<>>
    /\ kernel_cmp = NoKernelCmp
    /\ kernel_arg = None
    /\ kernel_result = NoKernelResult
    /\ attr_text = <<>>
    /\ attr = NoAttr
    /\ attrs_in = NoAttrs
    /\ attrs_out = NoAttrs
    /\ DevIdle
    /\ BuildIdle

\* ---------------------------------------------------------------------
\* String helpers
\* ---------------------------------------------------------------------
\* str.lower() on one token.
lower(tok) ==
    CASE tok = "Reef" -> "reef"
      [] tok = "Rev2" -> "rev2"
      [] OTHER -> tok

\* str.replace('-', '_') on one token.
replace(tok) == IF tok = "-" THEN "_" ELSE tok

HasDelim(toks) == \E i \in DOMAIN toks : toks[i] = "_"

FirstDelim(toks) ==
    CHOOSE i \in DOMAIN toks :
        toks[i] = "_" /\ \A j \in 1..(i - 1) : toks[j] # "_"

\* The text between two delimiters: one word, or the empty string.
Word(toks) == IF toks = <<>> THEN "" ELSE toks[1]

\* str.split('_')
RECURSIVE split(_)
split(toks) ==
    IF ~HasDelim(toks) THEN <<Word(toks)>>
    ELSE LET k == FirstDelim(toks)
         IN  <<Word(SubSeq(toks, 1, k - 1))>>
                 \o split(SubSeq(toks, k + 1, Len(toks)))

\* str(codename).lower().replace('-', '_').split('_')
codename_parts(cn) ==
    split([i \in DOMAIN cn |-> replace(lower(cn[i]))])

Front(s) == SubSeq(s, 1, Len(s) - 1)

\* An order on score pairs preferring the larger second component.
ScoreLess_deeper(a, b) == a[1] < b[1] \/ (a[1] = b[1] /\ a[2] > b[2])

\* Lexicographic order on score pairs, as Python orders tuples.
ScoreLess(a, b) == a[1] < b[1] \/ (a[1] = b[1] /\ a[2] < b[2])

\* ---------------------------------------------------------------------
\* Matching by codename
\* ---------------------------------------------------------------------
\* sectname.rpartition('/')[0] in boards and
\* boards[parent].codename == board.codename
ParentHasCodename(boards, b) ==
    \E j \in DOMAIN boards :
        /\ boards[j].sect = Front(b.sect)
        /\ boards[j].codename = b.codename

\* fuzzy_idx counting the requested parts found anywhere in matchparts.
fuzzy_idx_anywhere(parts, matchparts, idx) ==
    idx - Cardinality({i \in DOMAIN parts : parts[i] \in Range(matchparts)})

\* The while loop taking 'x86' and 'amd64' for each other both ways.
RECURSIVE fuzzy_idx_symmetric(_, _, _)
fuzzy_idx_symmetric(parts, matchparts, idx) ==
    IF matchparts = <<>> \/ idx < 0 THEN idx
    ELSE LET tail == matchparts[Len(matchparts)]
             next == IF parts[idx + 1] = tail THEN idx - 1
                     ELSE IF {parts[idx + 1], tail} = {"x86", "amd64"}
                          THEN idx - 1
                          ELSE idx
         IN  fuzzy_idx_symmetric(parts, Front(matchparts), next)

\* The while loop of codename_match: idx is Python's index into parts.
RECURSIVE fuzzy_idx(_, _, _)
fuzzy_idx(parts, matchparts, idx) ==
    IF matchparts = <<>> \/ idx < 0 THEN idx
    ELSE LET tail == matchparts[Len(matchparts)]
             next == IF parts[idx + 1] = tail THEN idx - 1
                     ELSE IF <<parts[idx + 1], tail>> = <<"x86", "amd64">>
                          THEN idx - 1
                          ELSE idx
         IN  fuzzy_idx(parts, Front(matchparts), next)

\* codename_match(None)
codename_match_none(parts) == <<Len(parts) - 1, 0>>

\* codename_match giving the least score to a section whose parent has its
\* codename.
codename_match_best(parts, boards, b) ==
    LET matchparts ==
            b.sect \o (IF b.codename = None THEN <<>>
                       ELSE codename_parts(b.codename))
    IN  IF ParentHasCodename(boards, b)
        THEN <<-1, 0>>
        ELSE <<fuzzy_idx(parts, matchparts, Len(parts) - 1), Len(b.sect)>>

\* codename_match((sectname, board))
codename_match(parts, boards, b) ==
    LET matchparts ==
            b.sect \o (IF b.codename = None THEN <<>>
                       ELSE codename_parts(b.codename))
    IN  IF ParentHasCodename(boards, b)
        THEN <<Len(parts) - 1, Inf>>
        ELSE <<fuzzy_idx(parts, matchparts, Len(parts) - 1), Len(b.sect)>>

\* The key min(match_groups.items()) selects.
best_score(parts, boards) ==
    LET scores == {codename_match_none(parts)} \cup
                  {codename_match(parts, boards, boards[i]) :
                       i \in DOMAIN boards}
    IN  CHOOSE s \in scores : \A t \in scores : ~ScoreLess(t, s)

\* match_groups[score] without the None item, in iteration order.
matches_of(parts, boards, score) ==
    LET Tied(b) == codename_match(parts, boards, b) = score
    IN  SelectSeq(boards, Tied)

\* board_by_codename taking the first of several tied profiles.
board_by_codename_first(boards, cn) ==
    LET parts == codename_parts(cn)
        score == best_score(parts, boards)
        matches == matches_of(parts, boards, score)
    IN  IF matches = <<>> \/ score = codename_match_none(parts)
        THEN Raise("Unknown", <<>>)
        ELSE ReturnBoard(matches[1], "codename")

\* The branch "elif codename:" of depthchargectl.board.
board_by_codename(boards, cn) ==
    LET parts == codename_parts(cn)
        score == best_score(parts, boards)
        matches == matches_of(parts, boards, score)
    IN  IF matches = <<>> \/ score = codename_match_none(parts)
        THEN Raise("Unknown", <<>>)
        ELSE IF Len(matches) > 1
        THEN Raise("Ambiguous",
                   [i \in DOMAIN matches |-> matches[i].codename])
        ELSE ReturnBoard(matches[1], "codename")

\* codename, or the configured board when no codename is given.
effective(cn, cfg) == IF cn = <<>> THEN cfg ELSE cn

\* ---------------------------------------------------------------------
\* Actions
\* ---------------------------------------------------------------------
\* A caller invokes depthchargectl.board.
Call ==
    /\ pc = "idle"
    /\ \E cn \in Codenames, cfg \in ConfigBoards :
          /\ codename' = cn
          /\ config_board' = cfg
          /\ last' = IF effective(cn, cfg) # <<>> THEN last ELSE NoLast
    /\ pc' = "codename"
    /\ probes' = {}
    /\ hwid' = None
    /\ compatibles' = NoCompatibles
    /\ cros' = FALSE
    /\ arch' = ""
    /\ result' = NoResult
    /\ UNCHANGED catalog
    /\ UNCHANGED NotBoard

\* CodenamePhase with a failed codename match going on to the hardware ID.
CodenamePhase_FallsThrough ==
    /\ pc = "codename"
    /\ LET cn == effective(codename, config_board)
       IN  IF cn \in {<<"None">>, <<"none">>}
           THEN /\ result' = ReturnNone("codename")
                /\ pc' = "done"
           ELSE IF cn # <<>> /\ board_by_codename(catalog, cn).kind = "board"
           THEN /\ result' = board_by_codename(catalog, cn)
                /\ pc' = "done"
           ELSE /\ result' = result
                /\ pc' = "hwid"
    /\ UNCHANGED <<catalog, codename, config_board, probes, hwid,
                   compatibles, cros, arch, last>>
    /\ UNCHANGED NotBoard

\* Lines 433-493: the configured or given codename decides.
CodenamePhase ==
    /\ pc = "codename"
    /\ LET cn == effective(codename, config_board)
       IN  IF cn \in {<<"None">>, <<"none">>}
           THEN /\ result' = ReturnNone("codename")
                /\ pc' = "done"
           ELSE IF cn # <<>>
           THEN /\ result' = board_by_codename(catalog, cn)
                /\ pc' = "done"
           ELSE /\ result' = result
                /\ pc' = "hwid"
    /\ UNCHANGED <<catalog, codename, config_board, probes, hwid,
                   compatibles, cros, arch, last>>
    /\ UNCHANGED NotBoard

\* ---------------------------------------------------------------------
\* Matching by hardware ID
\* ---------------------------------------------------------------------
IsPrefix(p, s) == Len(p) <= Len(s) /\ SubSeq(s, 1, Len(p)) = p

\* Board.hwid_match: the compiled pattern, or None for an unset or empty one.
board_hwid_match(b) ==
    IF b.hwid = None \/ b.hwid = <<>> THEN None ELSE b.hwid

\* hwid_match with re.fullmatch in place of re.match.
hwid_match_full(b, h) ==
    IF b.hwid = None \/ b.hwid = <<>> THEN FALSE
    ELSE b.hwid = h

\* hwid_match(item): re.match anchors the pattern at the start of the
\* hardware ID; re.match(None, hwid) raises and the except returns False.
hwid_match(b, h) ==
    IF board_hwid_match(b) = None THEN FALSE
    ELSE IsPrefix(board_hwid_match(b), h)

\* tuple(filter(hwid_match, boards.items())), or () without a hardware ID.
hwid_matches(boards, h) ==
    LET Test(b) == hwid_match(b, h)
    IN  IF h # None THEN SelectSeq(boards, Test) ELSE <<>>

\* ---------------------------------------------------------------------
\* Matching by device-tree compatibles
\* ---------------------------------------------------------------------
\* Board.dt_compatible.fullmatch(c): a value without revision or sku is
\* extended with "(-rev\d+)?" and "(-sku\d+)?", a given one matches itself only.
dt_fullmatch(pattern, c) ==
    /\ pattern.base = c.base
    /\ (pattern.rev = NoRev \/ pattern.rev = c.rev)
    /\ (pattern.sku = NoRev \/ pattern.sku = c.sku)

\* compat_preference(None)
compat_preference_none(cs) == <<Len(cs), 0>>

\* compat_preference preferring the shallower section.
compat_preference_shallow(b, cs) ==
    IF b.dt = NoDt THEN <<Inf, 0>>
    ELSE LET hits == {i \in DOMAIN cs : dt_fullmatch(b.dt[1], cs[i])}
         IN  IF hits = {} THEN <<Inf, -1>>
             ELSE LET first == CHOOSE i \in hits : \A j \in hits : i <= j
                  IN  <<first - 1, Len(b.sect)>>

\* compat_preference((sectname, board))
compat_preference(b, cs) ==
    IF b.dt = NoDt THEN <<Inf, 0>>
    ELSE LET hits == {i \in DOMAIN cs : dt_fullmatch(b.dt[1], cs[i])}
         IN  IF hits = {} THEN <<Inf, -1>>
             ELSE LET first == CHOOSE i \in hits : \A j \in hits : i <= j
                  IN  <<first - 1, -Len(b.sect)>>

\* min((None, *boards.items()), key=compat_preference): the index in boards
\* of the first item of smallest key, 0 for the None item.
compat_min(boards, cs) ==
    LET key(i) == IF i = 0 THEN compat_preference_none(cs)
                  ELSE compat_preference(boards[i], cs)
        items == 0..Len(boards)
    IN  CHOOSE i \in items :
            /\ \A j \in items : ~ScoreLess(key(j), key(i))
            /\ \A j \in items : j < i => ScoreLess(key(i), key(j))

\* ---------------------------------------------------------------------
\* Generic boards per architecture
\* ---------------------------------------------------------------------
arm_32 == {"arm"}
arm_64 == {"arm64", "aarch64"}
x86_32 == {"i386", "x86"}
x86_64 == {"x86_64", "amd64"}

Unbound == <<"<unbound>">>

\* arch_sectname sending the 64-bit x86 names to boards/x86 as well.
arch_sectname_x86(a) ==
    IF a \in arm_32 THEN <<"boards", "arm">>
    ELSE IF a \in arm_64 THEN <<"boards", "arm64">>
    ELSE IF a \in x86_32 \cup x86_64 THEN <<"boards", "x86">>
    ELSE Unbound

\* The if/elif chain that assigns sectname; no branch assigns it for an
\* architecture outside the four groups.
arch_sectname(a) ==
    IF a \in arm_32 THEN <<"boards", "arm">>
    ELSE IF a \in arm_64 THEN <<"boards", "arm64">>
    ELSE IF a \in x86_32 THEN <<"boards", "x86">>
    ELSE IF a \in x86_64 THEN <<"boards", "amd64">>
    ELSE Unbound

HasSection(boards, sect) == \E i \in DOMAIN boards : boards[i].sect = sect

\* boards.get(sectname, None) and what follows it.
board_by_arch(boards, a) ==
    LET sectname == arch_sectname(a)
    IN  IF sectname = Unbound THEN Raise("UnboundLocalError", <<>>)
        ELSE IF HasSection(boards, sectname)
        THEN ReturnBoard(
                 boards[CHOOSE i \in DOMAIN boards : boards[i].sect = sectname],
                 "arch")
        ELSE Raise("Undetectable", <<>>)

\* Lines 495-514: the hardware ID decides.
HwidPhase ==
    /\ pc = "hwid"
    /\ \E h \in Hwids :
          /\ hwid' = h
          /\ LET matches == hwid_matches(catalog, h)
             IN  IF matches # <<>>
                 THEN /\ result' = ReturnBoard(matches[1], "hwid")
                      /\ pc' = "done"
                 ELSE /\ result' = result
                      /\ pc' = "dt"
    /\ probes' = probes \cup {"hwid"}
    /\ UNCHANGED <<catalog, codename, config_board, compatibles, cros,
                   arch, last>>
    /\ UNCHANGED NotBoard

\* Lines 516-542: the device-tree compatibles decide.
DtPhase ==
    /\ pc = "dt"
    /\ \E cs \in CompatLists :
          /\ compatibles' = cs
          /\ LET match == IF cs.present THEN compat_min(catalog, cs.list)
                          ELSE 0
             IN  IF match # 0
                 THEN /\ result' = ReturnBoard(catalog[match], "dt")
                      /\ pc' = "done"
                 ELSE /\ result' = result
                      /\ pc' = "cros"
    /\ probes' = probes \cup {"dt"}
    /\ UNCHANGED <<catalog, codename, config_board, hwid, cros, arch, last>>
    /\ UNCHANGED NotBoard

\* CrosPhase going on to the architecture whatever is_cros_boot says.
CrosPhase_Ignored ==
    /\ pc = "cros"
    /\ \E c \in BOOLEAN : cros' = c
    /\ result' = result
    /\ pc' = "arch"
    /\ probes' = probes \cup {"cros"}
    /\ UNCHANGED <<catalog, codename, config_board, hwid, compatibles,
                   arch, last>>
    /\ UNCHANGED NotBoard

\* Lines 544-548: not a ChromeOS boot, no board.
CrosPhase ==
    /\ pc = "cros"
    /\ \E c \in BOOLEAN :
          /\ cros' = c
          /\ IF ~c
             THEN /\ result' = ReturnNone("cros")
                  /\ pc' = "done"
             ELSE /\ result' = result
                  /\ pc' = "arch"
    /\ probes' = probes \cup {"cros"}
    /\ UNCHANGED <<catalog, codename, config_board, hwid, compatibles,
                   arch, last>>
    /\ UNCHANGED NotBoard

\* Lines 550-571: the generic board of the architecture.
ArchPhase ==
    /\ pc = "arch"
    /\ \E a \in Machines :
          /\ arch' = a
          /\ result' = board_by_arch(catalog, a)
    /\ pc' = "done"
    /\ probes' = probes \cup {"arch"}
    /\ UNCHANGED <<catalog, codename, config_board, hwid, compatibles,
                   cros, last>>
    /\ UNCHANGED NotBoard

\* The call is over; the caller keeps what a call with a codename gave.
Return ==
    /\ pc = "done"
    /\ pc' = "idle"
    /\ last' = IF effective(codename, config_board) # <<>>
               THEN [valid |-> TRUE,
                     codename |-> effective(codename, config_board),
                     result |-> result]
               ELSE last
    /\ UNCHANGED <<catalog, codename, config_board, probes, hwid,
                   compatibles, cros, arch, result>>
    /\ UNCHANGED NotBoard

Next ==
    \/ Call
    \/ CodenamePhase
    \/ HwidPhase
    \/ DtPhase
    \/ CrosPhase
    \/ ArchPhase
    \/ Return

Spec == Init /\ [][Next]_vars

\* ---------------------------------------------------------------------
\* Type invariant
\* ---------------------------------------------------------------------
TypeOK ==
    /\ catalog \in Catalogs
    /\ codename \in Codenames
    /\ config_board \in ConfigBoards
    /\ pc \in {"idle", "codename", "hwid", "dt", "cros", "arch", "done"}
    /\ probes \subseteq {"hwid", "dt", "cros", "arch"}
    /\ hwid \in Hwids
    /\ compatibles \in CompatLists
    /\ cros \in BOOLEAN
    /\ arch \in Machines \cup {""}
    /\ result.kind \in {"pending", "board", "none", "error"}

\* ---------------------------------------------------------------------
\* Claims
\* ---------------------------------------------------------------------
Requested == effective(codename, config_board)

\* The running call has a codename that is not 'none'.
Explicit == Requested \notin {<<>>, <<"None">>, <<"none">>}

Finished == pc = "done"

\* C1: with a codename other than 'none' the call reads no probe, never
\* reaches the hardware-ID, device-tree or architecture phases, ends in a
\* board or in the Unknown/Ambiguous error, and gives what the previous call
\* with the same codename gave.
C1_CodenameAloneDecides ==
    Explicit =>
        /\ pc \in {"idle", "codename", "done"}
        /\ probes = {}
        /\ Finished =>
              /\ result.how \in {"codename", "Unknown", "Ambiguous"}
              /\ (last.valid /\ last.codename = Requested)
                     => result = last.result

\* C1 witness: a failed codename match ended the call, as it ended the
\* previous call with that codename.
C1_Witness ==
    /\ Finished /\ Explicit
    /\ result.how = "Unknown"
    /\ last.valid /\ last.codename = Requested
    /\ catalog # <<>>

\* Every section has a codename and no two have the same one.
DistinctCodenames(boards) ==
    /\ \A i \in DOMAIN boards : boards[i].codename # None
    /\ \A i, j \in DOMAIN boards :
           i # j => codename_parts(boards[i].codename)
                        # codename_parts(boards[j].codename)

\* C2: in a catalog of pairwise distinct codenames, a call with the codename
\* of one profile returns no other profile.
C2_NeverAnotherProfile ==
    (Finished /\ Explicit /\ DistinctCodenames(catalog)
              /\ result.kind = "board")
        => \A i \in DOMAIN catalog :
               catalog[i].codename = Requested
                   => result.sect = catalog[i].sect

\* Scores of the profiles for the requested codename.
ScoreOf(i) == codename_match(codename_parts(Requested), catalog, catalog[i])

\* Some profile consumed a part of the requested codename.
SomeConsumed ==
    \E i \in DOMAIN catalog : ScoreOf(i)[1] < Len(codename_parts(Requested)) - 1

\* The profiles no profile scores better than.
Winners ==
    {i \in DOMAIN catalog :
        \A j \in DOMAIN catalog : ~ScoreLess(ScoreOf(j), ScoreOf(i))}

\* C3: a call with a codename returns a board exactly when one profile alone
\* holds the best score, raises Unknown exactly when no profile consumed a
\* part, and raises Ambiguous, naming every tied profile, exactly when two or
\* more profiles share the best score.
C3_OneBestOrError ==
    (Finished /\ Explicit) =>
        /\ (result = Raise("Unknown", <<>>)) <=> ~SomeConsumed
        /\ (result.how = "Ambiguous")
               <=> (SomeConsumed /\ Cardinality(Winners) >= 2)
        /\ (result.how = "Ambiguous") =>
               /\ result.kind = "error"
               /\ Len(result.names) = Cardinality(Winners)
               /\ \A i \in Winners :
                      \E k \in DOMAIN result.names :
                          result.names[k] = catalog[i].codename
        /\ (result.kind = "board")
               <=> (SomeConsumed /\ Cardinality(Winners) = 1)
        /\ (result.kind = "board") =>
               \A i \in Winners : result.sect = catalog[i].sect

\* C3 witness: two profiles tied and the error names both.
C3_Witness ==
    /\ Finished /\ Explicit
    /\ result.how = "Ambiguous"
    /\ Len(result.names) = 2
    /\ result.names[1] # result.names[2]

\* The profiles whose hwid-match pattern matches the hardware ID read.
HwidHits ==
    {i \in DOMAIN catalog :
        /\ catalog[i].hwid \notin {None, <<>>}
        /\ IsPrefix(catalog[i].hwid, hwid)}

\* C4: without a codename and with a hardware ID, the call returns the first
\* profile in catalog order whose hwid-match pattern matches it, before any
\* other probe is read; a profile without a pattern is never returned by this
\* phase, and the device-tree compatibles are read only when none matches.
C4_FirstHwidMatchWins ==
    ("hwid" \in probes /\ ~Explicit /\ hwid # None) =>
        /\ HwidHits # {} =>
              /\ pc \in {"done", "idle"}
              /\ probes = {"hwid"}
              /\ result.kind = "board" /\ result.how = "hwid"
              /\ \E i \in HwidHits :
                     /\ result.sect = catalog[i].sect
                     /\ \A j \in HwidHits : i <= j
        /\ result.how = "hwid" => HwidHits # {}
        /\ "dt" \in probes => HwidHits = {}

\* C4 witness: two profiles match the hardware ID and the first, the one of
\* the deeper section, is returned.
C4_Witness ==
    /\ Finished /\ ~Explicit /\ result.how = "hwid"
    /\ Cardinality(HwidHits) >= 2
    /\ result.sect = catalog[1].sect
    /\ Len(catalog[1].sect) > Len(catalog[2].sect)

\* The lowest position in the compatible list the profile's dt-compatible
\* pattern matches, 0 when it has no pattern or matches none.
LowestMatch(i) ==
    IF catalog[i].dt = NoDt THEN 0
    ELSE LET hits == {k \in DOMAIN compatibles.list :
                         dt_fullmatch(catalog[i].dt[1], compatibles.list[k])}
         IN  IF hits = {} THEN 0
             ELSE CHOOSE k \in hits : \A m \in hits : k <= m

DtHits == {i \in DOMAIN catalog : LowestMatch(i) > 0}

\* C5: without a codename or a hardware-ID match and with a compatible list,
\* the call returns a profile whose pattern matches the compatible string of
\* smallest position, the deepest section among those matching there; a
\* profile without a pattern or matching no string is never returned by this
\* phase.
C5_LowestCompatibleDeepestWins ==
    ("dt" \in probes /\ ~Explicit /\ compatibles.present) =>
        /\ DtHits # {} =>
              /\ result.kind = "board" /\ result.how = "dt"
              /\ \E i \in DtHits :
                     /\ result.sect = catalog[i].sect
                     /\ \A j \in DtHits :
                            /\ LowestMatch(i) <= LowestMatch(j)
                            /\ LowestMatch(i) = LowestMatch(j)
                                   => Len(catalog[j].sect) <= Len(catalog[i].sect)
        /\ DtHits = {} => result.how # "dt"

\* C5 witness: two profiles of different depth match the same first
\* compatible string and the deeper one, listed second, is returned.
C5_Witness ==
    /\ Finished /\ ~Explicit /\ result.how = "dt"
    /\ Len(catalog) = 2
    /\ LowestMatch(1) = 1 /\ LowestMatch(2) = 1
    /\ Len(catalog[1].sect) < Len(catalog[2].sect)
    /\ result.sect = catalog[2].sect

\* C6: without a codename, a hardware-ID match or a device-tree match, a
\* false is_cros_boot probe ends the call with the 'no board' result, for
\* every catalog, before the architecture is read.
C6_NotCrosGivesNone ==
    ("cros" \in probes /\ ~Explicit /\ ~cros) =>
        /\ pc \in {"done", "idle"}
        /\ result = ReturnNone("cros")
        /\ "arch" \notin probes
        /\ HwidHits = {} \/ hwid = None
        /\ DtHits = {} \/ ~compatibles.present

\* C6 witness: the catalog has generic and specific profiles, the hardware ID
\* and the compatible list were there and matched nothing.
C6_Witness ==
    /\ Finished /\ ~Explicit /\ "cros" \in probes /\ ~cros
    /\ result.kind = "none"
    /\ hwid # None /\ compatibles.present /\ compatibles.list # <<>>
    /\ HasSection(catalog, <<"boards", "x86">>)
    /\ Len(catalog) = 2

Sections(boards) == {boards[i].sect : i \in DOMAIN boards}

\* The catalog of the scenario: boards/x86 and boards/x86/reef.
ReefScenario ==
    Sections(catalog) = {<<"boards", "x86">>, <<"boards", "x86", "reef">>}

\* The generic fallback was reached: no codename, no match by hardware ID or
\* compatibles, a ChromeOS boot.
AtFallback == "arch" \in probes /\ ~Explicit /\ cros

\* C7 as stated: in the scenario, the architecture probe x86_64 gives the
\* boards/x86 profile.
C7_X86_64GivesBoardsX86 ==
    (AtFallback /\ ReefScenario /\ arch = "x86_64")
        => result = ReturnBoard([sect |-> <<"boards", "x86">>], "arch")

\* C7 amended: in the scenario, the architecture probe i386 gives the
\* boards/x86 profile, and the probe x86_64, whose generic section is
\* boards/amd64, gives the 'could not detect board' error.
C7_I386GivesBoardsX86 ==
    (AtFallback /\ ReefScenario) =>
        /\ arch = "i386"
               => result = ReturnBoard([sect |-> <<"boards", "x86">>], "arch")
        /\ arch = "x86_64" => result = Raise("Undetectable", <<>>)

\* C7 witness: the scenario reached the fallback with the probe i386.
C7_Witness ==
    /\ Finished /\ AtFallback /\ ReefScenario
    /\ arch = "i386"
    /\ result.kind = "board"

\* C8: at the generic fallback, when the catalog has no generic section for
\* the architecture read, whatever it is, the call raises the 'could not
\* detect board' error.
C8_NoGenericIsUndetectable ==
    (AtFallback /\ arch_sectname(arch) \notin Sections(catalog))
        => result = Raise("Undetectable", <<>>)

\* The catalog has a coral and a corsola profile.
CoralScenario ==
    /\ \E i \in DOMAIN catalog : catalog[i].codename = <<"coral">>
    /\ \E i \in DOMAIN catalog : catalog[i].codename = <<"corsola">>

C10_ReefAndReefRev2 ==
    Finished =>
        \A i, j \in DOMAIN catalog :
            (/\ catalog[i].codename = <<"reef">>
             /\ catalog[j].codename = <<"reef", "-", "rev2">>)
                => /\ Requested = <<"reef">>
                       => result = ReturnBoard(catalog[i], "codename")
                   /\ Requested = <<"reef", "-", "rev2">>
                       => result = ReturnBoard(catalog[j], "codename")

\* Two profiles of the catalog leave as many parts of the requested codename
\* un-consumed, and the section path of the first is the longer one.
TiedDeeper(i, j) ==
    /\ ScoreOf(i)[1] = ScoreOf(j)[1]
    /\ Len(catalog[i].sect) > Len(catalog[j].sect)

CandidateScores ==
    {codename_match_none(codename_parts(Requested))}
        \cup {ScoreOf(i) : i \in DOMAIN catalog}

\* C25 as stated: a profile whose parent section has the same codename is
\* given a score no other candidate beats, whatever codename is requested.
C25_SameCodenameChildScoresBest ==
    Explicit =>
        \A i \in DOMAIN catalog :
            ParentHasCodename(catalog, catalog[i])
                => \A s \in CandidateScores : ~ScoreLess(s, ScoreOf(i))

\* C25 amended: a profile whose parent section has the same codename is
\* given the score (len(parts) - 1, inf), which no candidate is worse than
\* and which the None item beats, so no call with a codename returns it.
C25_SameCodenameChildScoresWorst ==
    Explicit =>
        \A i \in DOMAIN catalog :
            ParentHasCodename(catalog, catalog[i]) =>
                /\ \A s \in CandidateScores : ~ScoreLess(ScoreOf(i), s)
                /\ ScoreLess(codename_match_none(codename_parts(Requested)),
                             ScoreOf(i))
                /\ Finished => result # ReturnBoard(catalog[i], "codename")

\* C25 witness: the call for the codename a parent and its child share has
\* returned the parent.
C25_Witness ==
    /\ Finished /\ Explicit
    /\ \E i, j \in DOMAIN catalog :
           /\ ParentHasCodename(catalog, catalog[i])
           /\ catalog[j].sect = Front(catalog[i].sect)
           /\ Requested = catalog[i].codename
           /\ result = ReturnBoard(catalog[j], "codename")

\* The catalog is the one section boards/<name>, which has no codename.
OnlyGeneric(name) ==
    /\ Len(catalog) = 1
    /\ catalog[1].sect = <<"boards", name>>
    /\ catalog[1].codename = None

\* C26 as stated: the requested part 'x86' consumes the candidate part
\* 'amd64' and the requested part 'amd64' the candidate part 'x86', each
\* call returning the profile as the call with the literal name does.
C26_AliasBothWays ==
    Finished =>
        /\ (Requested = <<"x86">> /\ OnlyGeneric("amd64"))
               => result = ReturnBoard(catalog[1], "codename")
        /\ (Requested = <<"amd64">> /\ OnlyGeneric("x86"))
               => result = ReturnBoard(catalog[1], "codename")

\* C26 amended: the requested part 'x86' consumes the candidate part 'amd64'
\* with the score of a literal match, and the requested part 'amd64' does not
\* consume the candidate part 'x86': that call raises the Unknown error.
C26_AliasOneWay ==
    Finished =>
        /\ (Requested = <<"x86">> /\ OnlyGeneric("amd64"))
               => /\ ScoreOf(1) = <<-1, 2>>
                  /\ result = ReturnBoard(catalog[1], "codename")
        /\ (Requested = <<"amd64">> /\ OnlyGeneric("amd64"))
               => /\ ScoreOf(1) = <<-1, 2>>
                  /\ result = ReturnBoard(catalog[1], "codename")
        /\ (Requested = <<"amd64">> /\ OnlyGeneric("x86"))
               => /\ ScoreOf(1) = <<0, 2>>
                  /\ result = Raise("Unknown", <<>>)

\* C26 witness: the call for 'amd64' over the one section boards/x86 has
\* raised the Unknown error.
C26_Witness ==
    /\ Finished
    /\ Requested = <<"amd64">> /\ OnlyGeneric("x86")
    /\ result.kind = "error"

\* =====================================================================
\* Architecture (depthcharge_tools/utils/platform.py, and the same class in
\* depthcharge_tools/utils.py)
\* =====================================================================
\* Architecture.groups
groups == <<arm_32, arm_64, x86_32, x86_64>>

\* The names Architecture values are made of: the seven of the groups and
\* one of no group.
ArchNames == {"arm", "arm64", "aarch64", "i386", "x86", "x86_64", "amd64",
              "armv7l"}

\* Architecture.__eq__ with the groups (arm, x86) of whole families.
Architecture_eq_families(self, other) ==
    \/ \E g \in {arm_32 \cup arm_64, x86_32 \cup x86_64} :
           self \in g /\ other \in g
    \/ self = other

\* Architecture.__eq__ comparing the strings only.
Architecture_eq_literal(self, other) == self = other

\* Architecture.__eq__(self, other), other an Architecture too.
Architecture_eq(self, other) ==
    \/ \E i \in DOMAIN groups : self \in groups[i] /\ other \in groups[i]
    \/ self = other

\* Architecture.__ne__(self, other), other an Architecture too.
Architecture_ne(self, other) ==
    \/ \E i \in DOMAIN groups : self \in groups[i] /\ other \notin groups[i]
    \/ self # other

\* Architecture.mkimage
mkimage(self) ==
    IF self \in arm_32 THEN "arm"
    ELSE IF self \in arm_64 THEN "arm64"
    ELSE IF self \in x86_32 THEN "x86"
    ELSE IF self \in x86_64 THEN "x86_64"
    ELSE "<None>"

\* Architecture.vboot
vboot(self) ==
    IF self \in arm_32 THEN "arm"
    ELSE IF self \in arm_64 THEN "aarch64"
    ELSE IF self \in x86_32 THEN "x86"
    ELSE IF self \in x86_64 THEN "amd64"
    ELSE "<None>"

\* Board detection at rest, for the specifications of the other parts.
BoardIdle ==
    /\ catalog = <<>>
    /\ codename = <<>>
    /\ config_board = <<>>
    /\ pc = "idle"
    /\ probes = {}
    /\ hwid = None
    /\ compatibles = NoCompatibles
    /\ cros = FALSE
    /\ arch = ""
    /\ result = NoResult
    /\ last = NoLast

\* The kernels at rest.
KernelIdle ==
    /\ installed = <<>>
    /\ kernel_cmp = NoKernelCmp
    /\ kernel_arg = None
    /\ kernel_result = NoKernelResult

\* What the Architecture comparisons leave alone.
NotArch == <<boardVars, kernelVars, attrVars, devVars, scanVars, buildVars>>

\* The partition attributes at rest.
AttrIdle ==
    /\ attr_text = <<>>
    /\ attr = NoAttr
    /\ attrs_in = NoAttrs
    /\ attrs_out = NoAttrs

InitArch ==
    /\ BoardIdle
    /\ KernelIdle
    /\ AttrIdle
    /\ DevIdle
    /\ BuildIdle
    /\ arch_names \in [1..3 -> ArchNames]
    /\ arch_cmp = NoArchCmp

\* The three values are compared with each other, both ways, and their
\* mkimage and vboot names are read.
ArchCompare ==
    /\ ~arch_cmp.done
    /\ arch_cmp' =
           [done |-> TRUE,
            eq |-> [i \in 1..3 |-> [j \in 1..3 |->
                       Architecture_eq(arch_names[i], arch_names[j])]],
            ne |-> [i \in 1..3 |-> [j \in 1..3 |->
                       Architecture_ne(arch_names[i], arch_names[j])]],
            mkimage |-> [i \in 1..3 |-> mkimage(arch_names[i])],
            vboot |-> [i \in 1..3 |-> vboot(arch_names[i])]]
    /\ UNCHANGED arch_names
    /\ UNCHANGED NotArch

\* Other values are taken up.
ArchForget ==
    /\ arch_cmp.done
    /\ arch_names' \in [1..3 -> ArchNames]
    /\ arch_cmp' = NoArchCmp
    /\ UNCHANGED NotArch

NextArch ==
    \/ ArchCompare
    \/ ArchForget

SpecArch == InitArch /\ [][NextArch]_vars

\* The group of a name of the seven.
GroupOf(name) ==
    CASE name = "arm" -> "arm_32"
      [] name \in {"arm64", "aarch64"} -> "arm_64"
      [] name \in {"i386", "x86"} -> "x86_32"
      [] name \in {"x86_64", "amd64"} -> "x86_64"
      [] OTHER -> name

Grouped == {"arm", "arm64", "aarch64", "i386", "x86", "x86_64", "amd64"}

\* C11: on the seven names, two Architecture values are equal exactly when
\* their names are of the same group, and the equality found is reflexive,
\* symmetric and transitive.
C11_EqualIffSameGroup ==
    (arch_cmp.done /\ \A i \in 1..3 : arch_names[i] \in Grouped) =>
        /\ \A i, j \in 1..3 :
               arch_cmp.eq[i][j]
                   <=> GroupOf(arch_names[i]) = GroupOf(arch_names[j])
        /\ \A i \in 1..3 : arch_cmp.eq[i][i]
        /\ \A i, j \in 1..3 : arch_cmp.eq[i][j] => arch_cmp.eq[j][i]
        /\ \A i, j, k \in 1..3 :
               (arch_cmp.eq[i][j] /\ arch_cmp.eq[j][k]) => arch_cmp.eq[i][k]

\* C11 witness: two different names of one group were found equal, and a
\* name of another group of the same family unequal to them.
C11_Witness ==
    /\ arch_cmp.done
    /\ arch_names = <<"i386", "x86", "amd64">>
    /\ arch_cmp.eq[1][2] /\ ~arch_cmp.eq[2][3]

\* C12 as stated: arm64 and aarch64 are unequal although both have the
\* mkimage name arm64, and x86_64 and amd64 are equal.
C12_Arm64NotAarch64 ==
    arch_cmp.done =>
        /\ (arch_names[1] = "arm64" /\ arch_names[2] = "aarch64") =>
               /\ ~arch_cmp.eq[1][2]
               /\ arch_cmp.mkimage[1] = "arm64"
               /\ arch_cmp.mkimage[2] = "arm64"
        /\ (arch_names[1] = "x86_64" /\ arch_names[2] = "amd64") =>
               arch_cmp.eq[1][2]

\* C12 amended: arm64 and aarch64, of the one group arm_64, are equal and
\* both have the mkimage name arm64, and x86_64 and amd64 are equal.
C12_Arm64EqualsAarch64 ==
    arch_cmp.done =>
        /\ (arch_names[1] = "arm64" /\ arch_names[2] = "aarch64") =>
               /\ arch_cmp.eq[1][2]
               /\ arch_cmp.mkimage[1] = "arm64"
               /\ arch_cmp.mkimage[2] = "arm64"
        /\ (arch_names[1] = "x86_64" /\ arch_names[2] = "amd64") =>
               arch_cmp.eq[1][2]

\* C12 witness: arm64 and aarch64 were compared.
C12_Witness ==
    /\ arch_cmp.done
    /\ arch_names[1] = "arm64" /\ arch_names[2] = "aarch64"
    /\ arch_cmp.eq[1][2]


\* C29: of two Architecture values, a != b is the negation of a == b: no
\* two values were found both equal and not equal, or neither.
C29_NeIsNotEq ==
    arch_cmp.done =>
        \A i, j \in 1..3 : arch_cmp.ne[i][j] <=> ~arch_cmp.eq[i][j]
\* =====================================================================
\* Kernel (depthcharge_tools/utils/platform.py) and the choice of the kernel
\* to build for (depthcharge_tools/depthchargectl/_build.py)
\*
\* A release is the sequence of its characters: "5.9.0-rc1" is
\* <<"5", ".", "9", ".", "0", "-", "r", "c", "1">>; None is the release of
\* an unversioned kernel file.
\* =====================================================================
MaxKernels == 3   \* number of installed kernels

\* The code point of a character.
Ord(ch) ==
    CASE ch = "-" -> 45 [] ch = "." -> 46
      [] ch = "0" -> 48 [] ch = "1" -> 49 [] ch = "2" -> 50 [] ch = "3" -> 51
      [] ch = "4" -> 52 [] ch = "5" -> 53 [] ch = "6" -> 54 [] ch = "7" -> 55
      [] ch = "8" -> 56 [] ch = "9" -> 57
      [] ch = "c" -> 99 [] ch = "k" -> 107 [] ch = "n" -> 110
      [] ch = "r" -> 114 [] ch = "t" -> 116 [] ch = "u" -> 117

\* str.isnumeric()
isnumeric(str) ==
    /\ str # <<>>
    /\ \A i \in DOMAIN str :
          str[i] \in {"0", "1", "2", "3", "4", "5", "6", "7", "8", "9"}

\* int(str) of a numeric string
RECURSIVE int(_)
int(str) ==
    IF str = <<>> THEN 0
    ELSE 10 * int(Front(str)) + (Ord(str[Len(str)]) - Ord("0"))

\* str.startswith(prefix)
startswith(str, prefix) == IsPrefix(prefix, str)

\* str.split(sep)
RECURSIVE str_split(_, _)
str_split(str, sep) ==
    IF \A i \in DOMAIN str : str[i] # sep THEN <<str>>
    ELSE LET k == CHOOSE i \in DOMAIN str :
                      str[i] = sep /\ \A j \in 1..(i - 1) : str[j] # sep
         IN  <<SubSeq(str, 1, k - 1)>>
                 \o str_split(SubSeq(str, k + 1, Len(str)), sep)

\* Python's order on sequences: the first differing position decides, and a
\* proper prefix is smaller. The first differing position, 0 without one:
FirstDiff(a, b) ==
    LET diff == {i \in DOMAIN a \cap DOMAIN b : a[i] # b[i]}
    IN  IF diff = {} THEN 0 ELSE CHOOSE i \in diff : \A j \in diff : i <= j

\* str < str
StrLess(a, b) ==
    LET k == FirstDiff(a, b)
    IN  IF k = 0 THEN Len(a) < Len(b) ELSE Ord(a[k]) < Ord(b[k])

\* The tuple of one dot-component as a string-only key, without its number.
dot_tuple_unnumbered(dot) ==
    [flag |-> ~(startswith(dot, <<"r", "c">>)
                \/ startswith(dot, <<"t", "r", "u", "n", "k">>)),
     num |-> -1,
     str |-> dot]

\* The tuple _release_parts makes of one dot-component.
dot_tuple(dot) ==
    [flag |-> ~(startswith(dot, <<"r", "c">>)
                \/ startswith(dot, <<"t", "r", "u", "n", "k">>)),
     num |-> IF isnumeric(dot) THEN int(dot) ELSE -1,
     str |-> dot]

\* (bool, int, str) < (bool, int, str)
TupleLess(x, y) ==
    IF x.flag # y.flag THEN ~x.flag /\ y.flag
    ELSE IF x.num # y.num THEN x.num < y.num
    ELSE StrLess(x.str, y.str)

\* list of tuples < list of tuples
DashLess(a, b) ==
    LET k == FirstDiff(a, b)
    IN  IF k = 0 THEN Len(a) < Len(b) ELSE TupleLess(a[k], b[k])

\* list of lists of tuples < list of lists of tuples
PartsLess(a, b) ==
    LET k == FirstDiff(a, b)
    IN  IF k = 0 THEN Len(a) < Len(b) ELSE DashLess(a[k], b[k])

\* Kernel._release_parts
release_parts(release) ==
    LET dashes == str_split(release, "-")
    IN  [i \in DOMAIN dashes |->
            LET dots == str_split(dashes[i], ".")
            IN  [j \in DOMAIN dots |-> dot_tuple(dots[j])]]

\* A filler below every component: (False, -1, "")
end_lowest == [flag |-> FALSE, num |-> -1, str |-> <<>>]

\* end = (True, -1, "")
end == [flag |-> TRUE, num |-> -1, str |-> <<>>]

\* The s of Kernel._comparable_parts(self, other), given the parts of both:
\* the dash-components both have are made as long as each other, then the
\* missing dash-components are added as [end].
padded(s, o) ==
    LET inner == [i \in DOMAIN s |->
                     IF i <= Len(o) /\ Len(o[i]) > Len(s[i])
                     THEN s[i] \o [j \in 1..(Len(o[i]) - Len(s[i])) |-> end]
                     ELSE s[i]]
    IN  IF Len(o) > Len(s)
        THEN inner \o [j \in 1..(Len(o) - Len(s)) |-> <<end>>]
        ELSE inner

\* Kernel.__lt__(self, other) on releases: "True", "False", or the
\* AttributeError of None.split.
Kernel_lt(self, other) ==
    IF self = None \/ other = None THEN "AttributeError"
    ELSE LET s == release_parts(self)
             o == release_parts(other)
         IN  IF PartsLess(padded(s, o), padded(o, s)) THEN "True" ELSE "False"

\* Kernel.__gt__(self, other)
Kernel_gt(self, other) ==
    IF self = None \/ other = None THEN "AttributeError"
    ELSE LET s == release_parts(self)
             o == release_parts(other)
         IN  IF PartsLess(padded(o, s), padded(s, o)) THEN "True" ELSE "False"

\* max(kernels) from item i on, maxitem being the largest so far.
RECURSIVE max_from(_, _, _)
max_from(kernels, i, maxitem) ==
    IF i > Len(kernels) THEN [kind |-> "kernel", release |-> maxitem, err |-> ""]
    ELSE LET c == Kernel_gt(kernels[i], maxitem)
         IN  IF c = "AttributeError"
             THEN [kind |-> "error", release |-> None, err |-> c]
             ELSE max_from(kernels, i + 1,
                           IF c = "True" THEN kernels[i] ELSE maxitem)

Releases == {
    <<"5", ".", "1", "0", ".", "0">>,
    <<"5", ".", "9", ".", "0">>,
    <<"5", ".", "9", ".", "0", "-", "r", "c", "1">>,
    <<"5", ".", "9", ".", "0", "-", "r", "c", "2">>,
    <<"5", ".", "9", ".", "0", "-", "1">>,
    <<"5", ".", "9">>,
    <<"5", ".", "9", ".">>,
    None
}

KernelLists == {l \in SeqsOver(Releases, MaxKernels) : NoRepeat(l)}

\* depthchargectl_build.kernel_version(kernel_version)
kernel_version(kernels, version) ==
    IF version # None
    THEN LET Same(r) == r = version
             found == SelectSeq(kernels, Same)
         IN  IF found = <<>>
             THEN [kind |-> "error", release |-> None, err |-> "ValueError"]
             ELSE [kind |-> "kernel", release |-> found[1], err |-> ""]
    ELSE IF kernels # <<>>
    THEN max_from(kernels, 2, kernels[1])
    ELSE [kind |-> "error", release |-> None, err |-> "UnboundLocalError"]

\* What the kernels leave alone.
NotKernel == <<boardVars, archVars, attrVars, devVars, scanVars, buildVars>>

InitKernel ==
    /\ BoardIdle
    /\ arch_names = NoArchNames
    /\ arch_cmp = NoArchCmp
    /\ AttrIdle
    /\ DevIdle
    /\ BuildIdle
    /\ installed \in KernelLists
    /\ kernel_cmp = NoKernelCmp
    /\ kernel_arg = None
    /\ kernel_result = NoKernelResult

\* The installed kernels are compared with each other, both ways.
KernelCompare ==
    /\ ~kernel_cmp.done
    /\ kernel_cmp' =
           [done |-> TRUE,
            lt |-> [i \in DOMAIN installed |-> [j \in DOMAIN installed |->
                       Kernel_lt(installed[i], installed[j])]],
            gt |-> [i \in DOMAIN installed |-> [j \in DOMAIN installed |->
                       Kernel_gt(installed[i], installed[j])]]]
    /\ UNCHANGED <<installed, kernel_arg, kernel_result>>
    /\ UNCHANGED NotKernel

\* depthchargectl build [KERNEL_VERSION] chooses its kernel.
KernelVersion ==
    /\ kernel_result.kind = "pending"
    /\ \E v \in {None, <<"5", ".", "9", ".", "0">>, <<"6", ".", "1">>} :
          /\ kernel_arg' = v
          /\ kernel_result' = kernel_version(installed, v)
    /\ UNCHANGED <<installed, kernel_cmp>>
    /\ UNCHANGED NotKernel

\* A kernel is installed or removed.
KernelInstall ==
    /\ kernel_cmp.done \/ kernel_result.kind # "pending"
    /\ \/ \E r \in Releases :
              /\ Len(installed) < MaxKernels
              /\ ~\E i \in DOMAIN installed : installed[i] = r
              /\ installed' = Append(installed, r)
       \/ \E i \in DOMAIN installed :
              installed' = SubSeq(installed, 1, i - 1)
                               \o SubSeq(installed, i + 1, Len(installed))
    /\ kernel_cmp' = NoKernelCmp
    /\ kernel_arg' = None
    /\ kernel_result' = NoKernelResult
    /\ UNCHANGED NotKernel

NextKernel ==
    \/ KernelCompare
    \/ KernelVersion
    \/ KernelInstall

SpecKernel == InitKernel /\ [][NextKernel]_vars

\* ---------------------------------------------------------------------
\* Claims about the kernels
\* ---------------------------------------------------------------------
R_5_10_0 == <<"5", ".", "1", "0", ".", "0">>
R_5_9_0 == <<"5", ".", "9", ".", "0">>
R_5_9_0_rc1 == <<"5", ".", "9", ".", "0", "-", "r", "c", "1">>
R_5_9_0_rc2 == <<"5", ".", "9", ".", "0", "-", "r", "c", "2">>
R_5_9 == <<"5", ".", "9">>
R_5_9_dot == <<"5", ".", "9", ".">>

\* The comparison of the installed kernels of these two releases said that
\* the first is greater and not smaller than the second.
Greater(a, b) ==
    \A i, j \in DOMAIN installed :
        installed[i] = a /\ installed[j] = b =>
            /\ kernel_cmp.gt[i][j] = "True"
            /\ kernel_cmp.lt[i][j] = "False"
            /\ kernel_cmp.lt[j][i] = "True"
            /\ kernel_cmp.gt[j][i] = "False"

Has(r) == \E i \in DOMAIN installed : installed[i] = r

\* C13: kernel releases are compared by their numeric dot-components as
\* numbers, and a pre-release is below its release: 5.10.0 > 5.9.0,
\* 5.9.0 > 5.9.0-rc1 and 5.9.0-rc2 > 5.9.0-rc1.
C13_ReleaseOrderExamples ==
    kernel_cmp.done =>
        /\ Greater(R_5_10_0, R_5_9_0)
        /\ Greater(R_5_9_0, R_5_9_0_rc1)
        /\ Greater(R_5_9_0_rc2, R_5_9_0_rc1)
        /\ Greater(R_5_10_0, R_5_9_0_rc2)

C13_Witness ==
    /\ kernel_cmp.done
    /\ installed = <<R_5_9_0_rc1, R_5_10_0, R_5_9_0>>
    /\ kernel_cmp.gt[2][3] = "True"
    /\ kernel_cmp.gt[3][1] = "True"

\* C14: on kernels of distinct release strings the comparison is a strict
\* total order: of two of them exactly one is the smaller, smaller and
\* greater mirror each other, and smaller is transitive.
C14_StrictTotalOrder ==
    kernel_cmp.done /\ ~Has(None) =>
        /\ \A i, j \in DOMAIN installed :
              i # j =>
                  /\ (kernel_cmp.lt[i][j] = "True") # (kernel_cmp.gt[i][j] = "True")
                  /\ (kernel_cmp.lt[i][j] = "True") = (kernel_cmp.gt[j][i] = "True")
        /\ \A i, j, k \in DOMAIN installed :
              kernel_cmp.lt[i][j] = "True" /\ kernel_cmp.lt[j][k] = "True"
                  => kernel_cmp.lt[i][k] = "True"

\* C15: without a KERNEL_VERSION the build takes the greatest installed
\* kernel, and reports that no kernel is installed, by the error made for
\* that, when there is none.
C15_DefaultIsMaxOrTypedError ==
    kernel_result.kind # "pending" /\ kernel_arg = None =>
        IF installed = <<>>
        THEN kernel_result.kind = "error" /\ kernel_result.err = "ValueError"
        ELSE /\ kernel_result.kind = "kernel"
             /\ Has(kernel_result.release)
             /\ \A i \in DOMAIN installed :
                   Kernel_gt(installed[i], kernel_result.release) = "False"


\* The release b is the release a and one more component after a '.' or
\* a '-'.
Extends(a, b) ==
    /\ a # None /\ b # None
    /\ Len(b) > Len(a)
    /\ SubSeq(b, 1, Len(a)) = a
    /\ b[Len(a) + 1] \in {".", "-"}
    /\ \A k \in (Len(a) + 2)..Len(b) : b[k] \notin {".", "-"}

\* The component by which b extends a.
Extension(a, b) == SubSeq(b, Len(a) + 2, Len(b))

\* The comparison of the installed kernels of these two releases said that
\* neither is greater or smaller than the other.
Neither(a, b) ==
    \A i, j \in DOMAIN installed :
        installed[i] = a /\ installed[j] = b =>
            /\ kernel_cmp.gt[i][j] = "False"
            /\ kernel_cmp.lt[i][j] = "False"
            /\ kernel_cmp.lt[j][i] = "False"
            /\ kernel_cmp.gt[j][i] = "False"

\* C27 as stated: a release is smaller than every release that extends it
\* with one more trailing component, whatever the component is, so that
\* 5.9.0-rc1 > 5.9.0.
C27_MissingComponentIsLowest ==
    kernel_cmp.done =>
        \A a, b \in Range(installed) : Extends(a, b) => Greater(b, a)

\* C27 amended: a release is smaller than the release that extends it with
\* a non-empty component not starting with 'rc' or 'trunk', greater than the
\* release that extends it with a component starting with 'rc' or 'trunk',
\* and neither smaller nor greater than the release that extends it with an
\* empty component; so 5.10.0 > 5.9.0 > 5.9.0-rc1.
C27_MissingComponentAboveRc ==
    kernel_cmp.done =>
        /\ \A a, b \in Range(installed) :
               Extends(a, b) =>
                   IF Extension(a, b) = <<>> THEN Neither(a, b)
                   ELSE IF dot_tuple(Extension(a, b)).flag
                        THEN Greater(b, a)
                        ELSE Greater(a, b)
        /\ Greater(R_5_10_0, R_5_9_0_rc1)
        /\ Greater(R_5_9_0, R_5_9_0_rc1)

\* C27 witness: 5.9.0 compared greater than 5.9.0-rc1 and smaller than
\* 5.9.0-1, the two releases that extend it.
C27_Witness ==
    /\ kernel_cmp.done
    /\ installed = <<R_5_9_0, R_5_9_0_rc1, <<"5", ".", "9", ".", "0", "-", "1">>>>
    /\ kernel_cmp.gt[1][2] = "True"
    /\ kernel_cmp.lt[1][3] = "True"
\* =====================================================================
\* The attributes of a kernel partition
\* (depthcharge_partitions, depthcharge_tools/utils.py)
\* =====================================================================
MaxHexDigits == 3   \* digits of the value cgpt show -A prints

HexDigits ==
    <<"0", "1", "2", "3", "4", "5", "6", "7",
      "8", "9", "A", "B", "C", "D", "E", "F">>

HexValue(ch) == (CHOOSE i \in DOMAIN HexDigits : HexDigits[i] = ch) - 1

\* int(text, 16)
RECURSIVE int16(_)
int16(text) ==
    IF text = <<>> THEN 0
    ELSE 16 * int16(Front(text)) + HexValue(text[Len(text)])

HexTexts ==
    {t \in SeqsOver({HexDigits[i] : i \in DOMAIN HexDigits}, MaxHexDigits) :
        t # <<>>}

\* x >> n
shr(x, n) == x \div (2 ^ n)

\* x & (2^n - 1), the mask 0xF being 2^4 - 1 and 0x1 being 2^1 - 1
low_bits(x, n) == x % (2 ^ n)

\* priority = (attr) & 0xF
priority_of(a) == low_bits(a, 4)

\* tries = (attr >> 4), without the mask
tries_of_unmasked(a) == shr(a, 4)

\* tries = (attr >> 4) & 0xF
tries_of(a) == low_bits(shr(a, 4), 4)

\* successful = (attr >> 9) & 0x1, one bit too high
successful_of_bit9(a) == low_bits(shr(a, 9), 1)

\* successful = (attr >> 8) & 0x1
successful_of(a) == low_bits(shr(a, 8), 1)

\* The (priority, tries, successful) depthcharge_partitions puts out for a
\* partition of the packed value a.
decode(a) ==
    [priority |-> priority_of(a),
     tries |-> tries_of(a),
     successful |-> successful_of(a)]

\* The packed value of the attributes: bits 0-3 priority, bits 4-7 tries,
\* bit 8 successful.
encode(attrs) ==
    attrs.priority + 16 * attrs.tries + 256 * attrs.successful

Attrs == [priority : 0..15, tries : 0..15, successful : {0, 1}]

\* What the partition attributes leave alone.
NotAttr == <<boardVars, archVars, kernelVars, devVars, scanVars, buildVars>>

InitAttr ==
    /\ BoardIdle
    /\ arch_names = NoArchNames
    /\ arch_cmp = NoArchCmp
    /\ KernelIdle
    /\ AttrIdle
    /\ DevIdle
    /\ BuildIdle

\* cgpt show -A prints the attribute value of a partition and
\* depthcharge_partitions reads it.
ReadAttr ==
    /\ attr = NoAttr
    /\ \E text \in HexTexts :
          /\ attr_text' = text
          /\ attr' = int16(text)
    /\ UNCHANGED <<attrs_in, attrs_out>>
    /\ UNCHANGED NotAttr

\* Attributes are packed into a value.
EncodeAttr ==
    /\ attr = NoAttr
    /\ \E attrs \in Attrs :
          /\ attrs_in' = attrs
          /\ attr' = encode(attrs)
    /\ UNCHANGED <<attr_text, attrs_out>>
    /\ UNCHANGED NotAttr

\* depthcharge_partitions takes the value apart.
DecodeAttr ==
    /\ attr # NoAttr
    /\ attrs_out = NoAttrs
    /\ attrs_out' = decode(attr)
    /\ UNCHANGED <<attr_text, attr, attrs_in>>
    /\ UNCHANGED NotAttr

\* The next partition.
NextPartition ==
    /\ attrs_out # NoAttrs
    /\ attr_text' = <<>>
    /\ attr' = NoAttr
    /\ attrs_in' = NoAttrs
    /\ attrs_out' = NoAttrs
    /\ UNCHANGED NotAttr

NextAttr ==
    \/ ReadAttr
    \/ EncodeAttr
    \/ DecodeAttr
    \/ NextPartition

SpecAttr == InitAttr /\ [][NextAttr]_vars

\* ---------------------------------------------------------------------
\* Claims about the partition attributes
\* ---------------------------------------------------------------------
\* Bit k of the value a.
Bit(a, k) == (a \div (2 ^ k)) % 2

\* C16: taking apart the packed value of attributes with priority and
\* tries in 0..15 and successful in {0, 1} gives these attributes back.
C16_DecodeInvertsEncode ==
    attrs_in # NoAttrs /\ attrs_out # NoAttrs => attrs_out = attrs_in

C16_Witness ==
    /\ attrs_in = [priority |-> 5, tries |-> 15, successful |-> 1]
    /\ attr = 501
    /\ attrs_out = attrs_in

\* C17: of every value read for a partition, priority is bits 0-3, tries
\* is bits 4-7 and successful is bit 8, whatever the higher bits are;
\* 0x000 gives (0, 0, 0) and 0x1F0 gives (0, 15, 1).
C17_BitLayout ==
    attr_text # <<>> /\ attrs_out # NoAttrs =>
        /\ attrs_out.priority =
               Bit(attr, 0) + 2 * Bit(attr, 1) + 4 * Bit(attr, 2) + 8 * Bit(attr, 3)
        /\ attrs_out.tries =
               Bit(attr, 4) + 2 * Bit(attr, 5) + 4 * Bit(attr, 6) + 8 * Bit(attr, 7)
        /\ attrs_out.successful = Bit(attr, 8)
        /\ attrs_out \in Attrs
        /\ attr_text = <<"0", "0", "0">> =>
               attrs_out = [priority |-> 0, tries |-> 0, successful |-> 0]
        /\ attr_text = <<"1", "F", "0">> =>
               attrs_out = [priority |-> 0, tries |-> 15, successful |-> 1]

C17_Witness ==
    /\ attr_text = <<"F", "F", "0">>
    /\ attr = 4080
    /\ attrs_out = [priority |-> 0, tries |-> 15, successful |-> 1]

\* =====================================================================
\* The block devices and their physical disks
\* (BlockDevice, depthcharge_tools/utils.py)
\*
\* A device object is its name in /dev with the identity of the object:
\* two objects made for the same name are different objects.
\* =====================================================================
MaxParents == 2   \* recorded parents of one device

\* The names of /sys/class/block, in the order of sorted().
DevNames == <<"dm-0", "dm-1", "sda", "sda1", "sdb">>

Names == {DevNames[i] : i \in DOMAIN DevNames}

\* What scan_devices can have recorded as parents: the devices with slaves,
\* with a device-mapper name or with a parent device (here the devices of
\* /sys/devices/virtual/block), each with its parents.
ParentRecords ==
    UNION {[keys -> {ps \in SUBSET Names : ps # {} /\ Cardinality(ps) <= MaxParents}] :
               keys \in SUBSET {"dm-0", "dm-1"}}

\* self._parents.get(p, set())
parents_get(p) == IF p \in DOMAIN dev_parents THEN dev_parents[p] ELSE {}

\* self._parents[name] of the defaultdict: a name without a record gets an
\* empty one.
parents_item(name) ==
    IF name \in DOMAIN dev_parents THEN dev_parents
    ELSE [n \in DOMAIN dev_parents \cup {name} |->
             IF n = name THEN {} ELSE dev_parents[n]]

\* sorted(names)
sorted(names) == LET In(n) == n \in names IN SelectSeq(DevNames, In)

\* The DiskDevice objects made of the sorted names, those skipped whose
\* construction raises.
parent_devs(names) ==
    LET Made(n) == n \in dev_exists
        made == SelectSeq(sorted(names), Made)
    IN  [i \in DOMAIN made |-> [name |-> made[i], id |-> next_id + i - 1]]

\* physical_parents up to its loop: [self] of a physical device, else the
\* copy of the recorded parents.
physical_parents_enter(self, caller) ==
    IF self.name \in dev_physicals
    THEN [pc |-> "done", self |-> self, caller |-> caller,
          parents |-> {}, todo |-> {}, removed |-> {}, result |-> <<self>>]
    ELSE [pc |-> "while", self |-> self, caller |-> caller,
          parents |-> parents_get(self.name), todo |-> {}, removed |-> {},
          result |-> <<>>]

\* disk not in disks, of objects without __eq__
not_in(disk, disks) == \A i \in DOMAIN disks : disks[i].id # disk.id

\* for disk in root.physical_parents(): if disk not in disks:
\* disks.append(disk)
RECURSIVE append_new(_, _)
append_new(disks, more) ==
    IF more = <<>> THEN disks
    ELSE append_new(IF not_in(Head(more), disks)
                    THEN Append(disks, Head(more)) ELSE disks,
                    Tail(more))

\* The devices findmnt gives for /boot and for /, which are made objects of
\* when /dev has them; NoDev when it finds none.
BootDevs == {"<None>", "dm-0", "sda"}

RootDevs == {"<None>", "dm-0", "dm-1", "sdb"}

\* What the devices leave alone.
NotDev == <<boardVars, archVars, kernelVars, attrVars, scanVars, buildVars>>

InitDev ==
    /\ BoardIdle
    /\ arch_names = NoArchNames
    /\ arch_cmp = NoArchCmp
    /\ KernelIdle
    /\ AttrIdle
    /\ dev_parents \in ParentRecords
    /\ dev_physicals \in {{}, {"sda"}, {"sda", "sdb"}}
    /\ dev_exists \in {Names, Names \ {"sdb"}}
    /\ pp = NoCall
    /\ bpd = NoBootable
    /\ next_id = 1
    /\ sysfs = <<>>
    /\ scan = NoScan
    /\ BuildIdle

\* dev.physical_parents() is called for a device.
PhysicalParents ==
    /\ pp.pc = "idle"
    /\ bpd.pc = "idle"
    /\ \E d \in dev_exists :
          /\ pp' = physical_parents_enter([name |-> d, id |-> 1], "top")
          /\ dev_parents' = IF d \in dev_physicals THEN dev_parents
                            ELSE parents_item(d)
    /\ next_id' = 2
    /\ UNCHANGED <<dev_physicals, dev_exists, bpd>>
    /\ UNCHANGED NotDev

\* while parents - self._physicals: the for loop gets its devices, or the
\* loop is left and the disks of the sorted parents are returned.
PhysicalParents_While ==
    /\ pp.pc = "while"
    /\ IF pp.parents \ dev_physicals # {}
       THEN /\ pp' = [pp EXCEPT !.pc = "for", !.todo = pp.parents \ dev_physicals]
            /\ UNCHANGED next_id
       ELSE /\ pp' = [pp EXCEPT !.pc = "done", !.result = parent_devs(pp.parents)]
            /\ next_id' = next_id + Len(parent_devs(pp.parents))
    /\ UNCHANGED <<dev_parents, dev_physicals, dev_exists, bpd>>
    /\ UNCHANGED NotDev

\* for p in parents - self._physicals: p gives way to its parents.
PhysicalParents_For ==
    /\ pp.pc = "for"
    /\ \E p \in pp.todo :
          pp' = [pp EXCEPT
                    !.parents = (pp.parents \ {p}) \cup parents_get(p),
                    !.todo = pp.todo \ {p},
                    !.removed = pp.removed \cup {p},
                    !.pc = IF pp.todo = {p} THEN "while" ELSE "for"]
    /\ UNCHANGED <<dev_parents, dev_physicals, dev_exists, bpd, next_id>>
    /\ UNCHANGED NotDev

\* The caller of dev.physical_parents() has its result.
PhysicalParents_Return ==
    /\ pp.pc = "done"
    /\ pp.caller = "top"
    /\ pp' = NoCall
    /\ next_id' = 1
    /\ UNCHANGED <<dev_parents, dev_physicals, dev_exists, bpd>>
    /\ UNCHANGED NotDev

\* BlockDevice.bootable_physical_disks() is called: the devices of /boot
\* and of / are looked up.
Bootable ==
    /\ pp.pc = "idle"
    /\ bpd.pc = "idle"
    /\ \E b \in BootDevs \cap (dev_exists \cup {"<None>"}),
          r \in RootDevs \cap (dev_exists \cup {"<None>"}) :
          bpd' = [pc |-> "boot",
                  boot |-> IF b = "<None>" THEN NoDev ELSE [name |-> b, id |-> 1],
                  root |-> IF r = "<None>" THEN NoDev ELSE [name |-> r, id |-> 2],
                  disks |-> <<>>]
    /\ next_id' = 3
    /\ UNCHANGED <<dev_parents, dev_physicals, dev_exists, pp>>
    /\ UNCHANGED NotDev

\* if boot is not None: boot.physical_parents() is called.
Bootable_Boot ==
    /\ bpd.pc = "boot"
    /\ pp.pc = "idle"
    /\ IF bpd.boot = NoDev
       THEN /\ bpd' = [bpd EXCEPT !.pc = "root"]
            /\ UNCHANGED <<pp, dev_parents>>
       ELSE /\ pp' = physical_parents_enter(bpd.boot, "boot")
            /\ dev_parents' = IF bpd.boot.name \in dev_physicals THEN dev_parents
                              ELSE parents_item(bpd.boot.name)
            /\ UNCHANGED bpd
    /\ UNCHANGED <<dev_physicals, dev_exists, next_id>>
    /\ UNCHANGED NotDev

\* disks += boot.physical_parents()
Bootable_BootDone ==
    /\ pp.pc = "done"
    /\ pp.caller = "boot"
    /\ bpd' = [bpd EXCEPT !.pc = "root", !.disks = bpd.disks \o pp.result]
    /\ pp' = NoCall
    /\ UNCHANGED <<dev_parents, dev_physicals, dev_exists, next_id>>
    /\ UNCHANGED NotDev

\* if root is not None: root.physical_parents() is called.
Bootable_Root ==
    /\ bpd.pc = "root"
    /\ pp.pc = "idle"
    /\ IF bpd.root = NoDev
       THEN /\ bpd' = [bpd EXCEPT !.pc = "done"]
            /\ UNCHANGED <<pp, dev_parents>>
       ELSE /\ pp' = physical_parents_enter(bpd.root, "root")
            /\ dev_parents' = IF bpd.root.name \in dev_physicals THEN dev_parents
                              ELSE parents_item(bpd.root.name)
            /\ UNCHANGED bpd
    /\ UNCHANGED <<dev_physicals, dev_exists, next_id>>
    /\ UNCHANGED NotDev

\* The disks of root.physical_parents() that are not in disks are appended.
Bootable_RootDone ==
    /\ pp.pc = "done"
    /\ pp.caller = "root"
    /\ bpd' = [bpd EXCEPT !.pc = "done", !.disks = append_new(bpd.disks, pp.result)]
    /\ pp' = NoCall
    /\ UNCHANGED <<dev_parents, dev_physicals, dev_exists, next_id>>
    /\ UNCHANGED NotDev

\* return disks
Bootable_Return ==
    /\ bpd.pc = "done"
    /\ bpd' = NoBootable
    /\ next_id' = 1
    /\ UNCHANGED <<dev_parents, dev_physicals, dev_exists, pp>>
    /\ UNCHANGED NotDev

NextDev ==
    \/ PhysicalParents
    \/ PhysicalParents_While
    \/ PhysicalParents_For
    \/ PhysicalParents_Return
    \/ Bootable
    \/ Bootable_Boot
    \/ Bootable_BootDone
    \/ Bootable_Root
    \/ Bootable_RootDone
    \/ Bootable_Return

SpecDev == InitDev /\ [][NextDev]_vars

\* The calls run on: a step that can be taken is taken.
SpecDevLive == SpecDev /\ WF_vars(NextDev)

\* ---------------------------------------------------------------------
\* Claims about the block devices
\* ---------------------------------------------------------------------
\* The names reached from the recorded parents of d along the recorded
\* parents of devices that are not physical, after n rounds.
RECURSIVE ReachIn(_, _)
ReachIn(d, n) ==
    IF n = 0 THEN parents_get(d)
    ELSE LET r == ReachIn(d, n - 1)
         IN  r \cup UNION {parents_get(q) : q \in r \ dev_physicals}

\* The physical devices d leads to.
PhysicalAncestors(d) ==
    IF d \in dev_physicals THEN {d}
    ELSE ReachIn(d, Len(DevNames)) \cap dev_physicals

NamesOf(devs) == [i \in DOMAIN devs |-> devs[i].name]

\* C18: every physical_parents call returns, whatever the recorded parents
\* are: with cycles, with devices that are their own parent, with devices
\* without a record.
C18_EveryCallReturns == (pp.pc = "while") ~> (pp.pc = "done")

\* C19: a physical_parents call for a device that leads to a physical
\* device /dev still has returns, and what it returns is [d] for a physical
\* d, and else the physical devices d leads to through devices that are not
\* physical, those that /dev still has, sorted by name, at least one.
C19_SortedPhysicalAncestors ==
    (pp.pc # "idle" /\ PhysicalAncestors(pp.self.name) \cap dev_exists # {})
        ~> (/\ pp.pc = "done"
            /\ NamesOf(pp.result)
                   = sorted(PhysicalAncestors(pp.self.name) \cap dev_exists)
            /\ pp.result # <<>>)

\* C20: bootable_physical_disks gives the physical parents of the device of
\* /boot and then those of the device of / that are not yet listed: no disk
\* is listed twice.
C20_NoDiskTwice ==
    bpd.pc = "done" =>
        \A i, j \in DOMAIN bpd.disks :
            i # j => bpd.disks[i].name # bpd.disks[j].name


\* No device that is not a physical disk leads to itself.
NoCycle ==
    \A d \in Names \ dev_physicals : d \notin ReachIn(d, Len(DevNames))

\* C28: within one physical_parents call, a device that was taken out of
\* parents and replaced by its own parents is never put into parents again:
\* parents holds no device the call has taken out. It is stated for the
\* graphs without a cycle, where a device can still be reached along two
\* paths.
C28_RemovedNeverReadded ==
    (pp.pc \in {"while", "for"} /\ NoCycle)
        => pp.parents \cap pp.removed = {}
\* =====================================================================
\* The scan of /sys/class/block
\* (BlockDevice.scan_devices, depthcharge_tools/utils.py)
\*
\* The entry of a device has the lines of its dm/name file, the names in
\* its slaves directory, and the names of the directory its resolved path
\* is in (parent) and of the directory above that (grandparent).
\* =====================================================================
\* The entries a device of this name can have: a disk, a partition of sda,
\* a device-mapper device over some devices.
SysEntries(d) ==
    CASE d \in {"sda", "sdb"} ->
             {[dm |-> {}, slaves |-> {}, parent |-> "block", grandparent |-> "0:0:0:0"]}
      [] d = "sda1" ->
             {[dm |-> {}, slaves |-> {}, parent |-> "sda", grandparent |-> "block"]}
      [] d = "dm-0" ->
             {[dm |-> {"vg-root"}, slaves |-> sl, parent |-> "block",
               grandparent |-> "virtual"] :
                  sl \in {x \in SUBSET {"sda1", "sdb"} :
                             x # {} /\ Cardinality(x) <= MaxParents}}
      [] OTHER -> {}

\* What the loop body of scan_devices makes of the recorded parents P for
\* the device d of entry e.
scan_parents(P, d, e) ==
    LET own == e.slaves \cup (IF e.grandparent = "block" THEN {e.parent} ELSE {})
        old(n) == IF n \in DOMAIN P THEN P[n] ELSE {}
        keys == DOMAIN P \cup e.dm \cup (IF own # {} THEN {d} ELSE {})
    IN  [n \in keys |->
            old(n) \cup (IF n \in e.dm THEN {d} ELSE {})
                   \cup (IF n = d THEN own ELSE {})]

\* What it makes of the physical devices.
scan_physicals(F, d, e) ==
    IF e.parent = "block" /\ e.grandparent # "virtual" THEN F \cup {d} ELSE F

\* What the scan leaves alone.
NotScan == <<boardVars, archVars, kernelVars, attrVars, buildVars>>

\* The process starts: nothing is recorded, /sys/class/block has its devices.
InitScan ==
    /\ BoardIdle
    /\ arch_names = NoArchNames
    /\ arch_cmp = NoArchCmp
    /\ KernelIdle
    /\ AttrIdle
    /\ dev_parents = <<>>
    /\ dev_physicals = {}
    /\ pp = NoCall
    /\ bpd = NoBootable
    /\ next_id = 1
    /\ sysfs \in {<<>>} \cup [{"sda"} -> SysEntries("sda")]
    /\ dev_exists = DOMAIN sysfs
    /\ scan = NoScan
    /\ BuildIdle

\* A device appears, with the devices it is made of there, or a device
\* nothing is made of disappears.
SysChange ==
    /\ scan.pc = "idle"
    /\ pp.pc = "idle"
    /\ \/ \E d \in Names \ DOMAIN sysfs : \E e \in SysEntries(d) :
              /\ e.slaves \subseteq DOMAIN sysfs
              /\ e.grandparent = "block" => e.parent \in DOMAIN sysfs
              /\ sysfs' = [n \in DOMAIN sysfs \cup {d} |->
                              IF n = d THEN e ELSE sysfs[n]]
       \/ \E d \in DOMAIN sysfs :
              /\ \A n \in DOMAIN sysfs :
                    d \notin sysfs[n].slaves /\ d # sysfs[n].parent
              /\ sysfs' = [n \in DOMAIN sysfs \ {d} |-> sysfs[n]]
    /\ dev_exists' = DOMAIN sysfs'
    /\ UNCHANGED <<dev_parents, dev_physicals, pp, bpd, next_id, scan>>
    /\ UNCHANGED NotScan

\* BlockDevice.scan_devices(force) is called, while no physical_parents call
\* is at work: it returns at once when parents and physical devices are
\* recorded and force is not set, and else lists /sys/class/block.
ScanDevices ==
    /\ scan.pc = "idle"
    /\ pp.pc = "idle"
    /\ \E force \in BOOLEAN :
          scan' =
              [pc |-> IF (DOMAIN dev_parents # {} /\ dev_physicals # {} /\ ~force)
                         \/ DOMAIN sysfs = {}
                      THEN "idle" ELSE "for",
               force |-> force,
               todo |-> IF DOMAIN dev_parents # {} /\ dev_physicals # {} /\ ~force
                        THEN {} ELSE DOMAIN sysfs,
               listed |-> IF DOMAIN dev_parents # {} /\ dev_physicals # {} /\ ~force
                          THEN scan.listed ELSE DOMAIN sysfs,
               before |-> [parents |-> dev_parents, physicals |-> dev_physicals],
               outcome |-> IF DOMAIN dev_parents # {} /\ dev_physicals # {} /\ ~force
                           THEN "kept" ELSE "scanned",
               done |-> scan.done
                            \/ (DOMAIN dev_parents # {} /\ dev_physicals # {} /\ ~force)
                            \/ DOMAIN sysfs = {},
               later |-> scan.done]
    /\ UNCHANGED <<sysfs, devVars>>
    /\ UNCHANGED NotScan

\* for dev in Path("/sys/class/block").iterdir(): the parents and the
\* physical devices get what the entry of dev says.
ScanDevices_For ==
    /\ scan.pc = "for"
    /\ \E d \in scan.todo :
          /\ dev_parents' = scan_parents(dev_parents, d, sysfs[d])
          /\ dev_physicals' = scan_physicals(dev_physicals, d, sysfs[d])
          /\ scan' = [scan EXCEPT
                         !.todo = scan.todo \ {d},
                         !.pc = IF scan.todo = {d} THEN "idle" ELSE "for",
                         !.done = scan.done \/ scan.todo = {d}]
    /\ UNCHANGED <<sysfs, dev_exists, pp, bpd, next_id>>
    /\ UNCHANGED NotScan

NextScan ==
    \/ SysChange
    \/ ScanDevices
    \/ ScanDevices_For
    \/ PhysicalParents
    \/ PhysicalParents_While
    \/ PhysicalParents_For
    \/ PhysicalParents_Return

SpecScan == InitScan /\ [][NextScan]_vars

\* ---------------------------------------------------------------------
\* Claims about the scan
\* ---------------------------------------------------------------------
\* The recorded parents of n in the record P.
ParentsIn(P, n) == IF n \in DOMAIN P THEN P[n] ELSE {}

\* The graph a complete scan of the listed devices makes of the graph g.
RECURSIVE ScanAll(_, _)
ScanAll(g, listed) ==
    IF listed = {} THEN g
    ELSE LET d == CHOOSE x \in listed : TRUE
         IN  ScanAll([parents |-> scan_parents(g.parents, d, sysfs[d]),
                      physicals |-> scan_physicals(g.physicals, d, sysfs[d])],
                     listed \ {d})

\* The names reached in the graph g from the parents of d through devices
\* that are not physical, after n rounds.
RECURSIVE ReachOn(_, _, _)
ReachOn(g, d, n) ==
    IF n = 0 THEN ParentsIn(g.parents, d)
    ELSE LET r == ReachOn(g, d, n - 1)
         IN  r \cup UNION {ParentsIn(g.parents, q) : q \in r \ g.physicals}

\* The names of the devices physical_parents gives for d on the graph g.
ResultOn(g, d) ==
    IF d \in g.physicals THEN <<d>>
    ELSE sorted(ReachOn(g, d, Len(DevNames)) \cap g.physicals \cap dev_exists)

\* C21: a scan_devices call without force that is made after a call has
\* completed leaves the recorded parents and the physical devices as they
\* were, whatever /sys/class/block has become.
C21_UnforcedScanKeepsGraph ==
    scan.later /\ ~scan.force =>
        /\ dev_physicals = scan.before.physicals
        /\ \A n \in DOMAIN dev_parents \cup DOMAIN scan.before.parents :
              parents_get(n) = ParentsIn(scan.before.parents, n)

\* C22: when scan_devices(force=True) has completed, the recorded parents
\* and the physical devices are devices /sys/class/block had at that scan.
C22_ForcedScanReflectsLatest ==
    scan.pc = "idle" /\ scan.force /\ scan.outcome = "scanned" =>
        /\ dev_physicals \subseteq scan.listed
        /\ \A n \in DOMAIN dev_parents : dev_parents[n] \subseteq scan.listed

\* C23: a physical_parents call that returns while scan_devices(force=True)
\* is at work gives what it gives on the graph from before the scan or what
\* it gives on the graph the complete scan makes.
C23_ScanIsOneCriticalSection ==
    scan.pc = "for" /\ scan.force /\ pp.pc = "done" =>
        NamesOf(pp.result) \in
            {ResultOn(scan.before, pp.self.name),
             ResultOn(ScanAll(scan.before, scan.listed), pp.self.name)}


\* =====================================================================
\* depthchargectl build (depthcharge_tools/depthchargectl/_build.py)
\* =====================================================================
MaxSize == 2   \* the largest size of the inputs and of an image

Sizes == 0..MaxSize

\* Board.image_max_size: a number of bytes, or float("inf") when unset.
ImageMaxSizes == (1..MaxSize) \cup {Inf}

\* The TYPE lists given with --compress; none given is the empty list.
CompressArgs == {
    <<>>,
    <<"none">>,
    <<"lzma">>,
    <<"lzma", "lz4">>,
    <<"lz4", "none", "lz4">>,
    <<"none", "zstd">>
}

\* sorted(set(compress), key=compress.index)
RECURSIVE unique(_)
unique(compress) ==
    IF compress = <<>> THEN <<>>
    ELSE LET front == unique(Front(compress))
             c == compress[Len(compress)]
         IN  IF c \in Range(front) THEN front ELSE Append(front, c)

\* [c for c in compress if c != "none"]
without_none(compress) ==
    LET NotNone(c) == c # "none" IN SelectSeq(compress, NotNone)

\* The compression types no --compress argument leaves to attempt.
default_compress(b) ==
    IF b.zimage THEN <<"none">>
    ELSE <<"none">> \o (IF b.lz4 THEN <<"lz4">> ELSE <<>>)
                     \o (IF b.lzma THEN <<"lzma">> ELSE <<>>)

\* depthchargectl_build.compress: the list of types, or the NameError the
\* message of an unsupported type ends in.
compress(b) ==
    IF \E i \in DOMAIN b.args : b.args[i] \notin {"none", "lz4", "lzma"}
    THEN [err |-> "NameError", list |-> <<>>]
    ELSE LET given == IF Len(b.args) = 0 THEN default_compress(b) ELSE b.args
             types == unique(given)
         IN  [err |-> "",
              list |-> IF "none" \in Range(types) /\ b.inputs > b.max
                       THEN without_none(types) ELSE types]

\* An image of this size fits the board when its size is at most the
\* maximum.
fits_at_most(size, max) == size <= max

\* outtmp.stat().st_size < self.board.image_max_size
fits(size, max) == size < max

\* What depthchargectl build leaves alone.
NotBuild == <<boardVars, archVars, kernelVars, attrVars, devVars, scanVars>>

InitBuild ==
    /\ BoardIdle
    /\ arch_names = NoArchNames
    /\ arch_cmp = NoArchCmp
    /\ KernelIdle
    /\ AttrIdle
    /\ DevIdle
    /\ \E f \in {NoFile, [compress |-> "none", size |-> 0]} :
          build = [NoBuild EXCEPT !.output = f]

\* depthchargectl build is called: the options are read and self.compress
\* gives the types to attempt.
Build ==
    /\ build.pc = "idle"
    /\ \E args \in CompressArgs, lz4, lzma, zimage, initrd \in BOOLEAN,
          max \in ImageMaxSizes, inputs \in Sizes :
          LET b == [NoBuild EXCEPT
                       !.args = args, !.lz4 = lz4, !.lzma = lzma,
                       !.zimage = zimage, !.initrd = initrd, !.max = max,
                       !.inputs = inputs, !.output = build.output,
                       !.before = build.output]
              c == compress(b)
          IN  build' = IF c.err # ""
                       THEN [b EXCEPT !.pc = "done", !.result = c.err]
                       ELSE [b EXCEPT !.pc = "for", !.compress = c.list,
                                      !.k = 1]
    /\ UNCHANGED NotBuild

\* for compress in self.compress: mkdepthcharge writes outtmp or fails, and
\* an image that fits ends the loop.
Build_Mkdepthcharge ==
    /\ build.pc = "for"
    /\ build.k <= Len(build.compress)
    /\ \/ build' = [build EXCEPT !.pc = "done", !.result = "CommandExit"]
       \/ \E size \in Sizes :
             LET image == [compress |-> build.compress[build.k],
                           size |-> size]
             IN  build' = [build EXCEPT
                              !.outtmp = image,
                              !.tried = Append(build.tried, image),
                              !.pc = IF fits(size, build.max)
                                     THEN "copy" ELSE "for",
                              !.k = IF fits(size, build.max)
                                    THEN build.k ELSE build.k + 1]
    /\ UNCHANGED NotBuild

\* The else of the for loop: no attempt gave an image that fits.
Build_TooBig ==
    /\ build.pc = "for"
    /\ build.k > Len(build.compress)
    /\ build' = [build EXCEPT
                    !.pc = "done",
                    !.result = IF build.initrd
                               THEN "InitramfsSizeTooBigError"
                               ELSE "SizeTooBigError"]
    /\ UNCHANGED NotBuild

\* copy(outtmp, self.output); return self.output
Build_Copy ==
    /\ build.pc = "copy"
    /\ build' = [build EXCEPT !.pc = "done", !.output = build.outtmp,
                              !.copied = TRUE, !.result = "output"]
    /\ UNCHANGED NotBuild

\* The caller has the output path or the error; the output file stays.
Build_Return ==
    /\ build.pc = "done"
    /\ build' = [NoBuild EXCEPT !.output = build.output]
    /\ UNCHANGED NotBuild

NextBuild ==
    \/ Build
    \/ Build_Mkdepthcharge
    \/ Build_TooBig
    \/ Build_Copy
    \/ Build_Return

SpecBuild == InitBuild /\ [][NextBuild]_vars

\* Every attempt made so far was of the next configured type, in order.
TriedInOrder ==
    /\ Len(build.tried) <= Len(build.compress)
    /\ \A i \in DOMAIN build.tried :
           build.tried[i].compress = build.compress[i]

\* The index of the first occurrence of a type among the arguments.
FirstAt(c) == CHOOSE i \in DOMAIN build.args :
                  build.args[i] = c /\ \A j \in 1..(i - 1) : build.args[j] # c

\* The types to attempt are types given, each once, in the order given.
ConfiguredOrder ==
    build.args # <<>> =>
        /\ Range(build.compress) \subseteq Range(build.args)
        /\ \A i, j \in DOMAIN build.compress :
               i < j => FirstAt(build.compress[i]) < FirstAt(build.compress[j])

\* Every type given with --compress is a supported one.
ValidArgs ==
    \A i \in DOMAIN build.args : build.args[i] \in {"none", "lz4", "lzma"}

TooBigErrors == {"InitramfsSizeTooBigError", "SizeTooBigError"}

\* C30: depthchargectl build writes the output file only after an attempt,
\* made in the configured order with every earlier attempt too big, gave an
\* image strictly smaller than image_max_size, and the file is then that
\* image; when every attempt is too big or none is left it raises
\* InitramfsSizeTooBigError with an initramfs and SizeTooBigError without,
\* when mkdepthcharge fails it raises CommandExit, and in these cases the
\* output file is what it was before the call.
C30_OutputOnlyAfterFit ==
    build.pc # "idle" =>
        /\ TriedInOrder /\ ConfiguredOrder
        /\ \A i \in 1..(Len(build.tried) - 1) :
               build.tried[i].size >= build.max
        /\ build.copied <=> (build.pc = "done" /\ build.result = "output")
        /\ ~build.copied => build.output = build.before
        /\ build.copied =>
               /\ build.tried # <<>>
               /\ build.output = build.tried[Len(build.tried)]
               /\ build.output.size < build.max
        /\ (build.pc = "done" /\ build.result \in TooBigErrors) =>
               /\ Len(build.tried) = Len(build.compress)
               /\ \A i \in DOMAIN build.tried :
                      build.tried[i].size >= build.max
               /\ (build.result = "InitramfsSizeTooBigError") <=> build.initrd
        /\ (build.pc = "done" /\ ValidArgs
               /\ Len(build.tried) = Len(build.compress)
               /\ \A i \in DOMAIN build.tried :
                      build.tried[i].size >= build.max)
               => build.result \in TooBigErrors
        /\ build.pc = "done" =>
               build.result \in TooBigErrors
                   \cup {"output", "CommandExit", "NameError"}
        /\ (build.pc = "done" /\ build.result = "NameError") => ~ValidArgs

\* The call raised a size error with no type left to attempt: the inputs
\* were too big for the one type 'none'.
NoneLeftToAttempt ==
    /\ build.pc = "done" /\ build.result = "InitramfsSizeTooBigError"
    /\ build.compress = <<>> /\ build.tried = <<>>
    /\ build.output = build.before

\* C30 witness: the first attempt gave an image of exactly image_max_size,
\* the second a smaller one, which replaced the output file there was.
C30_Witness ==
    /\ build.pc = "done" /\ build.result = "output"
    /\ Len(build.tried) = 2
    /\ build.tried[1].size = build.max
    /\ build.before # NoFile
    /\ build.output # build.before

====
